---------------------------- MODULE Spec2Model ----------------------------
(***************************************************************************)
(* Model of pam-auth's Authenticator (src/src/auth.rs) driving the wrapped *)
(* PAM primitives (src/src/wrapped.rs).  One Authenticator is constructed, *)
(* used through authenticate() / open_session() and finally dropped.  The  *)
(* PAM library is the environment: every primitive call returns a result   *)
(* code chosen nondeterministically.                                       *)
(***************************************************************************)
EXTENDS Integers, Sequences, FiniteSets, TLC

\* Largest number of authenticate()/open_session() calls in one lifetime.
MaxOps == 3

---------------------------------------------------------------------------
(* Result codes and error values *)

Success == "Success"
\* Non-success PamReturnCode values the PAM library may hand back.
FailCodes == {"Auth_Err", "Cred_Err"}
Codes == {Success} \cup FailCodes

\* PamResult<()>: Ok(()), Err(PamError(code)), or no value because the call
\* panicked ("panic") / no call was made yet ("none").
Ok == [kind |-> "ok", code |-> Success]
Err(c) == [kind |-> "err", code |-> c]
Panicked == [kind |-> "panic", code |-> Success]
NoRet == [kind |-> "none", code |-> Success]

\* One primitive call as seen by the PAM library: primitive, argument, result.
Call(p, a, rc) == [prim |-> p, arg |-> a, rc |-> rc]

---------------------------------------------------------------------------
(* Strings and environments *)

\* Strings with an interior NUL byte: CString::new fails on exactly these.
NulStrings == {"lo<NUL>gin"}
CStringNew_is_ok(str) == str \notin NulStrings

Services == {"login", "lo<NUL>gin"}

EnvKeys == <<"USER", "LOGNAME", "HOME", "PWD", "SHELL">>
KeySet == {EnvKeys[i] : i \in 1..Len(EnvKeys)}

\* The resolved OS user record (users::get_user_by_name).
UserName == "alice"
HomeDir == "/home/alice"
Shell == "/bin/sh"
EnvValues == <<UserName, UserName, HomeDir, HomeDir, Shell>>

\* pam_getenv returns NULL for an undefined name.
Null == "<null>"
\* Value of a variable the service environment defined before the session.
OldVal == "<old>"
\* Value of a process variable inherited from the parent process.
Inherited == "<inherited>"

buffer_error == Err("Buf_Err")

\* wrapped::getenv: Err(Buf_Err) when the name is no C string, Ok(None) when
\* pam_getenv returns NULL, Ok(Some(value)) otherwise.
getenv(env, name) ==
    IF CStringNew_is_ok(name)
    THEN IF env[name] # Null
         THEN [is_ok |-> TRUE, some |-> TRUE, value |-> env[name]]
         ELSE [is_ok |-> TRUE, some |-> FALSE, value |-> Null]
    ELSE [is_ok |-> FALSE, some |-> FALSE, value |-> Null]

\* wrapped::putenv on "key=value": the library stores the pair on success.
putenv(s, key, value, rc) ==
    IF CStringNew_is_ok(key) /\ CStringNew_is_ok(value)
    THEN LET s1 == [s EXCEPT !.calls = Append(@, Call("putenv", key, rc))]
         IN IF rc = Success
            THEN [s1 EXCEPT !.pamEnv[key] = value, !.ret = Ok]
            ELSE [s1 EXCEPT !.ret = Err(rc)]
    ELSE [s EXCEPT !.ret = buffer_error]

---------------------------------------------------------------------------
(* Authenticator methods as functions on the record s:                     *)
(*   is_authenticated, has_open_session, last_code : the struct's fields   *)
(*   calls  : primitive calls issued by the current operation              *)
(*   ret    : value the current operation returns                          *)
(*   pamEnv : the service's environment, procEnv : the process environment *)

\* Authenticator::set_env
set_env(s, key, value, putRc) ==
    LET s1 == [s EXCEPT !.procEnv[key] = value]
        g == getenv(s1.pamEnv, key)
        s2 == [s1 EXCEPT !.calls = Append(@, Call("getenv", key, Success))]
    IN IF g.is_ok
       THEN putenv(s2, key, value, putRc)
       ELSE [s2 EXCEPT !.ret = Ok]

\* The `?` chain of initialize_environment from the i-th variable on.
RECURSIVE set_env_from(_, _, _)
set_env_from(s, i, putRcs) ==
    IF i > Len(EnvKeys)
    THEN [s EXCEPT !.ret = Ok]
    ELSE LET s1 == set_env(s, EnvKeys[i], EnvValues[i], putRcs[i])
         IN IF s1.ret.kind = "ok"
            THEN set_env_from(s1, i + 1, putRcs)
            ELSE s1

\* An initialize_environment that sets all five process variables before
\* it turns to the service environment.
initialize_environment_process_first(s, resolved, putRcs) ==
    IF ~resolved
    THEN [s EXCEPT !.ret = Panicked]
    ELSE set_env_from(
           [s EXCEPT !.procEnv = [k \in KeySet |->
                         EnvValues[CHOOSE i \in 1..Len(EnvKeys) : EnvKeys[i] = k]]],
           1, putRcs)

\* Authenticator::initialize_environment
initialize_environment(s, resolved, putRcs) ==
    IF ~resolved
    THEN [s EXCEPT !.ret = Panicked]
    ELSE set_env_from(s, 1, putRcs)

\* A reset that forgets to clear the flag.
reset_keeps_flag(s, delRc) ==
    [s EXCEPT !.calls = Append(@, Call("setcred", "Delete_Cred", delRc)),
              !.ret = Err(s.last_code)]

\* A reset that issues no delete-credentials call.
reset_no_delete(s, delRc) ==
    [s EXCEPT !.is_authenticated = FALSE,
              !.ret = Err(s.last_code)]

\* A reset that stores and reports the code of its delete-credentials call.
reset_returns_delete_code(s, delRc) ==
    [s EXCEPT !.calls = Append(@, Call("setcred", "Delete_Cred", delRc)),
              !.last_code = delRc,
              !.is_authenticated = FALSE,
              !.ret = Err(delRc)]

\* A reset that also clears has_open_session.
reset_clears_session(s, delRc) ==
    [s EXCEPT !.calls = Append(@, Call("setcred", "Delete_Cred", delRc)),
              !.is_authenticated = FALSE,
              !.has_open_session = FALSE,
              !.ret = Err(s.last_code)]

\* Authenticator::reset
reset(s, delRc) ==
    [s EXCEPT !.calls = Append(@, Call("setcred", "Delete_Cred", delRc)),
              !.is_authenticated = FALSE,
              !.ret = Err(s.last_code)]

\* authenticate() that refuses a handle that is already authenticated.
authenticate_once(s, authRc, acctRc, delRc) ==
    IF s.is_authenticated
    THEN [s EXCEPT !.ret = Err("Perm_Denied")]
    ELSE LET s1 == [s EXCEPT !.calls = Append(@, Call("authenticate", "None", authRc)),
                             !.last_code = authRc]
         IN IF authRc # Success
            THEN [s1 EXCEPT !.ret = Err(authRc)]
            ELSE LET s3 == [s1 EXCEPT !.is_authenticated = TRUE,
                                      !.calls = Append(@, Call("acct_mgmt", "None", acctRc)),
                                      !.last_code = acctRc]
                 IN IF acctRc # Success THEN reset(s3, delRc) ELSE [s3 EXCEPT !.ret = Ok]

\* authenticate() that stays failed once a primitive has failed.
authenticate_sticky_failure(s, authRc, acctRc, delRc) ==
    IF s.last_code # Success
    THEN [s EXCEPT !.ret = Err(s.last_code)]
    ELSE LET s1 == [s EXCEPT !.calls = Append(@, Call("authenticate", "None", authRc)),
                             !.last_code = authRc]
         IN IF authRc # Success
            THEN [s1 EXCEPT !.ret = Err(authRc)]
            ELSE LET s3 == [s1 EXCEPT !.is_authenticated = TRUE,
                                      !.calls = Append(@, Call("acct_mgmt", "None", acctRc)),
                                      !.last_code = acctRc]
                 IN IF acctRc # Success THEN reset(s3, delRc) ELSE [s3 EXCEPT !.ret = Ok]

\* Authenticator::authenticate
authenticate(s, authRc, acctRc, delRc) ==
    LET s1 == [s EXCEPT !.calls = Append(@, Call("authenticate", "None", authRc)),
                        !.last_code = authRc]
    IN IF s1.last_code # Success
       THEN [s1 EXCEPT !.ret = Err(s1.last_code)]
       ELSE LET s2 == [s1 EXCEPT !.is_authenticated = TRUE]
                s3 == [s2 EXCEPT !.calls = Append(@, Call("acct_mgmt", "None", acctRc)),
                                 !.last_code = acctRc]
            IN IF s3.last_code # Success
               THEN reset(s3, delRc)
               ELSE [s3 EXCEPT !.ret = Ok]

\* The three session steps, run although establish-credentials failed.
open_session_no_short_circuit(s, estRc, openRc, reinitRc, delRc, resolved, putRcs) ==
    LET s1 == [s EXCEPT !.calls = Append(@, Call("setcred", "Establish_Cred", estRc)),
                        !.last_code = estRc]
        s2 == [s1 EXCEPT !.calls = Append(@, Call("open_session", "None", openRc)),
                         !.last_code = openRc]
    IN IF s2.last_code # Success THEN reset(s2, delRc) ELSE
    LET s3 == [s2 EXCEPT !.calls = Append(@, Call("setcred", "Reinitialize_Cred", reinitRc)),
                         !.last_code = reinitRc]
    IN IF s3.last_code # Success THEN reset(s3, delRc) ELSE
    initialize_environment([s3 EXCEPT !.has_open_session = TRUE], resolved, putRcs)

\* The session steps with a reset when the environment cannot be set.
open_session_resets_on_env_error(s, estRc, openRc, reinitRc, delRc, resolved, putRcs) ==
    LET s1 == [s EXCEPT !.calls = Append(@, Call("setcred", "Establish_Cred", estRc)),
                        !.last_code = estRc]
    IN IF s1.last_code # Success THEN reset(s1, delRc) ELSE
    LET s2 == [s1 EXCEPT !.calls = Append(@, Call("open_session", "None", openRc)),
                         !.last_code = openRc]
    IN IF s2.last_code # Success THEN reset(s2, delRc) ELSE
    LET s3 == [s2 EXCEPT !.calls = Append(@, Call("setcred", "Reinitialize_Cred", reinitRc)),
                         !.last_code = reinitRc]
    IN IF s3.last_code # Success THEN reset(s3, delRc) ELSE
    LET s4 == initialize_environment([s3 EXCEPT !.has_open_session = TRUE], resolved, putRcs)
    IN IF s4.ret.kind = "err"
       THEN [reset(s4, delRc) EXCEPT !.ret = s4.ret]
       ELSE s4

\* The session steps with has_open_session set as soon as pam_open_session
\* has succeeded, before credentials are reinitialized.
open_session_flag_before_reinit(s, estRc, openRc, reinitRc, delRc, resolved, putRcs) ==
    LET s1 == [s EXCEPT !.calls = Append(@, Call("setcred", "Establish_Cred", estRc)),
                        !.last_code = estRc]
    IN IF s1.last_code # Success THEN reset(s1, delRc) ELSE
    LET s2 == [s1 EXCEPT !.calls = Append(@, Call("open_session", "None", openRc)),
                         !.last_code = openRc]
    IN IF s2.last_code # Success THEN reset(s2, delRc) ELSE
    LET s3 == [s2 EXCEPT !.has_open_session = TRUE,
                         !.calls = Append(@, Call("setcred", "Reinitialize_Cred", reinitRc)),
                         !.last_code = reinitRc]
    IN IF s3.last_code # Success THEN reset(s3, delRc) ELSE
    initialize_environment(s3, resolved, putRcs)

\* The session steps with has_open_session set only once the environment
\* has been initialized.
open_session_flag_after_env(s, estRc, openRc, reinitRc, delRc, resolved, putRcs) ==
    LET s1 == [s EXCEPT !.calls = Append(@, Call("setcred", "Establish_Cred", estRc)),
                        !.last_code = estRc]
    IN IF s1.last_code # Success THEN reset(s1, delRc) ELSE
    LET s2 == [s1 EXCEPT !.calls = Append(@, Call("open_session", "None", openRc)),
                         !.last_code = openRc]
    IN IF s2.last_code # Success THEN reset(s2, delRc) ELSE
    LET s3 == [s2 EXCEPT !.calls = Append(@, Call("setcred", "Reinitialize_Cred", reinitRc)),
                         !.last_code = reinitRc]
    IN IF s3.last_code # Success THEN reset(s3, delRc) ELSE
    LET s4 == initialize_environment(s3, resolved, putRcs)
    IN IF s4.ret.kind = "panic" THEN s4 ELSE [s4 EXCEPT !.has_open_session = TRUE]

\* Authenticator::open_session past its is_authenticated check: establish
\* credentials, open the session, reinitialize credentials, then the environment.
open_session_steps(s, estRc, openRc, reinitRc, delRc, resolved, putRcs) ==
    LET s1 == [s EXCEPT !.calls = Append(@, Call("setcred", "Establish_Cred", estRc)),
                        !.last_code = estRc]
    IN IF s1.last_code # Success THEN reset(s1, delRc) ELSE
    LET s2 == [s1 EXCEPT !.calls = Append(@, Call("open_session", "None", openRc)),
                         !.last_code = openRc]
    IN IF s2.last_code # Success THEN reset(s2, delRc) ELSE
    LET s3 == [s2 EXCEPT !.calls = Append(@, Call("setcred", "Reinitialize_Cred", reinitRc)),
                         !.last_code = reinitRc]
    IN IF s3.last_code # Success THEN reset(s3, delRc) ELSE
    initialize_environment([s3 EXCEPT !.has_open_session = TRUE], resolved, putRcs)

\* open_session() without the is_authenticated check.
open_session_unguarded(s, estRc, openRc, reinitRc, delRc, resolved, putRcs) ==
    open_session_steps(s, estRc, openRc, reinitRc, delRc, resolved, putRcs)

\* Authenticator::open_session
open_session(s, estRc, openRc, reinitRc, delRc, resolved, putRcs) ==
    IF ~s.is_authenticated
    THEN [s EXCEPT !.ret = Err("Perm_Denied")]
    ELSE open_session_steps(s, estRc, openRc, reinitRc, delRc, resolved, putRcs)

\* A drop that closes the session whatever close_on_drop says.
drop_ignores_close_on_drop(s, closeOnDrop, closeRc, delRc, endRc) ==
    LET s1 == IF s.has_open_session
              THEN [s EXCEPT !.calls = Append(@, Call("close_session", "None", closeRc))]
              ELSE s
        s2 == [s1 EXCEPT !.calls = Append(@, Call("setcred", "Delete_Cred", delRc))]
    IN [s2 EXCEPT !.calls = Append(@, Call("end", delRc, endRc)), !.ret = NoRet]

\* A drop that ends the transaction without deleting the credentials.
drop_without_delete(s, closeOnDrop, closeRc, delRc, endRc) ==
    LET s1 == IF s.has_open_session /\ closeOnDrop
              THEN [s EXCEPT !.calls = Append(@, Call("close_session", "None", closeRc))]
              ELSE s
    IN [s1 EXCEPT !.calls = Append(@, Call("end", Success, endRc)), !.ret = NoRet]

\* A drop that hands end the code of close-session when it closed a session.
drop_ends_with_close_code(s, closeOnDrop, closeRc, delRc, endRc) ==
    LET closes == s.has_open_session /\ closeOnDrop
        s1 == IF closes
              THEN [s EXCEPT !.calls = Append(@, Call("close_session", "None", closeRc))]
              ELSE s
        code == IF closes THEN closeRc ELSE delRc
        s2 == [s1 EXCEPT !.calls = Append(@, Call("setcred", "Delete_Cred", delRc))]
    IN [s2 EXCEPT !.calls = Append(@, Call("end", code, endRc)), !.ret = NoRet]

\* Drop for Authenticator; end receives the code of the delete-credentials call.
drop(s, closeOnDrop, closeRc, delRc, endRc) ==
    LET s1 == IF s.has_open_session /\ closeOnDrop
              THEN [s EXCEPT !.calls = Append(@, Call("close_session", "None", closeRc))]
              ELSE s
        code == delRc
        s2 == [s1 EXCEPT !.calls = Append(@, Call("setcred", "Delete_Cred", delRc))]
    IN [s2 EXCEPT !.calls = Append(@, Call("end", code, endRc)), !.ret = NoRet]

\* wrapped::start: Err(Buf_Err) without calling pam_start when the service
\* name is no C string, else the mapped result of pam_start.
start(service, startRc) ==
    IF CStringNew_is_ok(service)
    THEN [calls |-> <<Call("start", service, startRc)>>,
          ret |-> IF startRc = Success THEN Ok ELSE Err(startRc)]
    ELSE [calls |-> <<>>, ret |-> buffer_error]

---------------------------------------------------------------------------
(* State *)

VARIABLES
    phase,             \* "unborn", "live", "panicked", "dropped", "start_failed"
    close_on_drop, is_authenticated, has_open_session, last_code,
    pamEnv, procEnv,   \* service environment, process environment
    op, calls, ret,    \* the last operation, its primitive calls, its result
    prevOp, prevRet,   \* the operation before it and its result
    nOps,              \* authenticate()/open_session() calls made so far
    everAuthOk,        \* some authenticate() call has returned Ok
    sessionOpened,     \* some pam_open_session call has returned Success
    nDelCred, nEnd, nClose,  \* lifetime counts of delete-credentials, end, close-session calls
    nStepFail,         \* operations in which acct_mgmt or a session step failed
    failed,            \* some authenticate()/open_session() call returned the error
                       \* of a failed primitive
    sessionFailed      \* a session step of open_session() has failed and no
                       \* authenticate() call has returned Ok since

fields == <<close_on_drop, is_authenticated, has_open_session, last_code>>
envs == <<pamEnv, procEnv>>
lastOp == <<op, calls, ret, prevOp, prevRet>>
ghosts == <<nOps, everAuthOk, sessionOpened, nDelCred, nEnd, nClose, nStepFail, failed, sessionFailed>>
vars == <<phase, fields, envs, lastOp, ghosts>>

\* The record the method operators work on, with an empty call log.
Self == [is_authenticated |-> is_authenticated,
         has_open_session |-> has_open_session,
         last_code |-> last_code,
         calls |-> <<>>, ret |-> NoRet,
         pamEnv |-> pamEnv, procEnv |-> procEnv]

CountCalls(cs, p, a) == Cardinality({i \in 1..Len(cs) : cs[i].prim = p /\ cs[i].arg = a})
CountPrim(cs, p) == Cardinality({i \in 1..Len(cs) : cs[i].prim = p})
HasCall(cs, p, a, rc) == \E i \in 1..Len(cs) : cs[i] = Call(p, a, rc)

\* acct_mgmt, establish-credentials, open-session or reinitialize-credentials.
IsStep(c) ==
    \/ c.prim \in {"acct_mgmt", "open_session"}
    \/ c.prim = "setcred" /\ c.arg \in {"Establish_Cred", "Reinitialize_Cred"}
StepFailed(cs) == \E i \in 1..Len(cs) : IsStep(cs[i]) /\ cs[i].rc # Success

\* Every primitive call of the log returned Success.
BackendOk(cs) == \A i \in 1..Len(cs) : cs[i].rc = Success

\* Effects of a finished method call r on the state.
Commit(name, r) ==
    /\ is_authenticated' = r.is_authenticated
    /\ has_open_session' = r.has_open_session
    /\ last_code' = r.last_code
    /\ pamEnv' = r.pamEnv
    /\ procEnv' = r.procEnv
    /\ op' = name
    /\ calls' = r.calls
    /\ ret' = r.ret
    /\ prevOp' = op
    /\ prevRet' = ret
    /\ nDelCred' = nDelCred + CountCalls(r.calls, "setcred", "Delete_Cred")
    /\ nClose' = nClose + CountPrim(r.calls, "close_session")
    /\ nEnd' = nEnd + CountPrim(r.calls, "end")
    /\ sessionOpened' = (sessionOpened \/ HasCall(r.calls, "open_session", "None", Success))
    /\ nStepFail' = nStepFail + (IF StepFailed(r.calls) THEN 1 ELSE 0)
    /\ failed' = (failed \/ (name # "drop" /\ r.ret.kind = "err" /\ ~BackendOk(r.calls)))
    /\ sessionFailed' = IF name = "open_session" /\ StepFailed(r.calls) THEN TRUE
                        ELSE IF name = "authenticate" /\ r.ret.kind = "ok" THEN FALSE
                        ELSE sessionFailed

Init ==
    /\ phase = "unborn"
    /\ close_on_drop = TRUE
    /\ is_authenticated = FALSE
    /\ has_open_session = FALSE
    /\ last_code = Success
    /\ pamEnv \in [KeySet -> {Null, OldVal}]
    /\ procEnv = [k \in KeySet |-> Inherited]
    /\ op = "none" /\ calls = <<>> /\ ret = NoRet
    /\ prevOp = "none" /\ prevRet = NoRet
    /\ nOps = 0 /\ everAuthOk = FALSE /\ sessionOpened = FALSE
    /\ nDelCred = 0 /\ nEnd = 0 /\ nClose = 0 /\ nStepFail = 0 /\ failed = FALSE /\ sessionFailed = FALSE

\* with_handler that builds the Authenticator whatever start returned.
WithHandler_ignores_start_error ==
    /\ phase = "unborn"
    /\ \E service \in Services, startRc \in Codes :
         LET r == start(service, startRc)
         IN /\ phase' = "live"
            /\ op' = "with_handler" /\ calls' = r.calls /\ ret' = Ok
            /\ prevOp' = op /\ prevRet' = ret
    /\ UNCHANGED <<fields, envs, ghosts>>

\* Authenticator::with_handler
WithHandler ==
    /\ phase = "unborn"
    /\ \E service \in Services, startRc \in Codes :
         LET r == start(service, startRc)
         IN /\ phase' = IF r.ret.kind = "ok" THEN "live" ELSE "start_failed"
            /\ op' = "with_handler" /\ calls' = r.calls /\ ret' = r.ret
            /\ prevOp' = op /\ prevRet' = ret
    /\ UNCHANGED <<fields, envs, ghosts>>

\* The caller assigns the public field close_on_drop.
SetCloseOnDrop ==
    /\ phase = "live"
    /\ \E b \in BOOLEAN : close_on_drop' = b /\ b # close_on_drop
    /\ UNCHANGED <<phase, is_authenticated, has_open_session, last_code, envs, lastOp, ghosts>>

\* A call of authenticate().  Result codes of primitives that are not
\* reached are fixed to Success.
Authenticate ==
    /\ phase = "live" /\ nOps < MaxOps
    /\ \E authRc \in Codes :
       \E acctRc \in (IF authRc = Success THEN Codes ELSE {Success}) :
       \E delRc \in (IF acctRc # Success THEN Codes ELSE {Success}) :
         LET r == authenticate(Self, authRc, acctRc, delRc)
         IN /\ Commit("authenticate", r)
            /\ everAuthOk' = (everAuthOk \/ r.ret.kind = "ok")
    /\ nOps' = nOps + 1
    /\ UNCHANGED <<phase, close_on_drop>>

\* pam_putenv result codes: the failIdx-th call (0: none) returns failRc.
PutRcs(failIdx, failRc) ==
    [i \in 1..Len(EnvKeys) |-> IF i = failIdx THEN failRc ELSE Success]

\* A call of open_session().
OpenSession ==
    /\ phase = "live" /\ nOps < MaxOps
    /\ \E estRc \in Codes :
       \E openRc \in (IF estRc = Success THEN Codes ELSE {Success}) :
       \E reinitRc \in (IF estRc = Success /\ openRc = Success THEN Codes ELSE {Success}) :
       \E delRc \in (IF {estRc, openRc, reinitRc} # {Success} THEN Codes ELSE {Success}) :
       \E resolved \in (IF {estRc, openRc, reinitRc} = {Success} THEN BOOLEAN ELSE {TRUE}) :
       \E failIdx \in (IF {estRc, openRc, reinitRc} = {Success} /\ resolved
                       THEN 0..Len(EnvKeys) ELSE {0}) :
       \E failRc \in (IF failIdx # 0 THEN FailCodes ELSE {Success}) :
         LET r == open_session(Self, estRc, openRc, reinitRc, delRc, resolved,
                               PutRcs(failIdx, failRc))
         IN /\ Commit("open_session", r)
            /\ phase' = IF r.ret.kind = "panic" THEN "panicked" ELSE "live"
    /\ nOps' = nOps + 1
    /\ UNCHANGED <<close_on_drop, everAuthOk>>

\* The Authenticator goes out of scope (normally, or while a panic unwinds).
Drop ==
    /\ phase \in {"live", "panicked"}
    /\ \E closeRc \in Codes, delRc \in Codes, endRc \in Codes :
         Commit("drop", drop(Self, close_on_drop, closeRc, delRc, endRc))
    /\ phase' = "dropped"
    /\ UNCHANGED <<close_on_drop, nOps, everAuthOk>>

Next == WithHandler \/ SetCloseOnDrop \/ Authenticate \/ OpenSession \/ Drop

Spec == Init /\ [][Next]_vars

TypeOK ==
    /\ phase \in {"unborn", "live", "panicked", "dropped", "start_failed"}
    /\ close_on_drop \in BOOLEAN /\ is_authenticated \in BOOLEAN
    /\ has_open_session \in BOOLEAN
    /\ last_code \in Codes
    /\ nOps \in 0..MaxOps

---------------------------------------------------------------------------
(* Properties *)

\* The last call of a log is the delete-credentials call of reset.
EndsInReset(cs) == Len(cs) > 0 /\ cs[Len(cs)].prim = "setcred" /\ cs[Len(cs)].arg = "Delete_Cred"

\* A session step of open_session(): establish, open-session, reinitialize.
IsSessionStep(c) ==
    \/ c.prim = "open_session"
    \/ c.prim = "setcred" /\ c.arg \in {"Establish_Cred", "Reinitialize_Cred"}

\* C1 as stated: in every reachable state has_open_session implies
\* is_authenticated.
C1_SessionImpliesAuthenticated ==
    has_open_session => is_authenticated

\* C1 amended: has_open_session turns true only in an open_session() call
\* that starts and ends with is_authenticated true, and while a session is
\* open is_authenticated turns false only through reset (whose
\* delete-credentials call ends the operation's calls).
C1_SessionOpensAuthenticated ==
    [][ /\ (~has_open_session /\ has_open_session')
            => (is_authenticated /\ is_authenticated' /\ op' = "open_session")
        /\ (has_open_session /\ is_authenticated /\ ~is_authenticated')
            => (has_open_session' /\ EndsInReset(calls') /\ ret'.kind = "err") ]_vars

C1_Witness ==
    op = "open_session" /\ has_open_session /\ is_authenticated /\ ret = Ok

\* C2: open_session() on an Authenticator on which no authenticate() call has
\* returned success returns the permission-denied error and invokes no
\* primitive (the call log of the operation, which records setcred,
\* open-session, getenv and putenv calls, is empty).
C2_OpenSessionBeforeAuthDenied ==
    (op = "open_session" /\ ~everAuthOk)
        => (ret = Err("Perm_Denied") /\ calls = <<>>)

C2_Witness ==
    /\ op = "open_session" /\ ~everAuthOk
    /\ prevOp = "authenticate" /\ prevRet.kind = "err" /\ nStepFail > 0

\* C3 as stated: once the Authenticator is dropped, delete-credentials and
\* end have each been invoked exactly once over its lifetime.
C3_DeleteAndEndOnceInLifetime ==
    phase = "dropped" => (nDelCred = 1 /\ nEnd = 1)

\* C3 amended: teardown itself invokes delete-credentials exactly once and
\* end exactly once, end is invoked nowhere else, and over the lifetime
\* delete-credentials is invoked once more for every authenticate() or
\* open_session() call in which acct_mgmt or a session step failed.
C3_TeardownDeletesAndEndsOnce ==
    /\ phase # "dropped" => nEnd = 0
    /\ phase = "dropped" =>
         /\ op = "drop"
         /\ CountCalls(calls, "setcred", "Delete_Cred") = 1
         /\ CountPrim(calls, "end") = 1
         /\ nEnd = 1
         /\ nDelCred = 1 + nStepFail

C3_Witness ==
    phase = "dropped" /\ nStepFail = 2 /\ nDelCred = 3 /\ nEnd = 1

\* C4: once the Authenticator is dropped, close-session has been invoked
\* exactly once if has_open_session and close_on_drop were both true at
\* teardown, and never otherwise.
C4_CloseSessionIffOpenAndCloseOnDrop ==
    /\ phase # "dropped" => nClose = 0
    /\ phase = "dropped" =>
         nClose = (IF has_open_session /\ close_on_drop THEN 1 ELSE 0)

C4_Witness ==
    phase = "dropped" /\ has_open_session /\ ~close_on_drop /\ nClose = 0

\* C5 as stated: with close_on_drop true, if any open-session primitive call
\* returned success during the lifetime, close-session is invoked at teardown.
C5_OpenedSessionClosedOnDrop ==
    (phase = "dropped" /\ close_on_drop /\ sessionOpened) => nClose >= 1

\* C6 as stated: after any authenticate() call that returns an error,
\* is_authenticated is false.
C6_FailedAuthenticateNotAuthenticated ==
    (op = "authenticate" /\ ret.kind = "err") => ~is_authenticated

\* C7: when the authenticate primitive succeeds and acct_mgmt returns a
\* failure code c, authenticate() returns the error carrying c and its calls
\* are authenticate, acct_mgmt, then a delete-credentials call.
C7_AcctFailureResetsAndReturnsCode ==
    (/\ op = "authenticate" /\ Len(calls) >= 2
     /\ calls[1] = Call("authenticate", "None", Success)
     /\ calls[2].prim = "acct_mgmt" /\ calls[2].rc # Success)
        => /\ ret = Err(calls[2].rc)
           /\ Len(calls) = 3
           /\ calls[3].prim = "setcred" /\ calls[3].arg = "Delete_Cred"

C7_Witness ==
    /\ op = "authenticate" /\ Len(calls) = 3
    /\ calls[2] = Call("acct_mgmt", "None", "Cred_Err")
    /\ calls[3] = Call("setcred", "Delete_Cred", "Auth_Err")

\* C8: within one open_session() call, after a session step that returned a
\* non-success code no later session step is invoked (nor getenv/putenv).
C8_SessionStepsShortCircuit ==
    op = "open_session" =>
        \A i, j \in 1..Len(calls) :
            (i < j /\ IsSessionStep(calls[i]) /\ calls[i].rc # Success)
                => (~IsSessionStep(calls[j]) /\ calls[j].prim \notin {"getenv", "putenv"})

C8_Witness ==
    /\ op = "open_session" /\ Len(calls) = 2
    /\ calls[1] = Call("setcred", "Establish_Cred", "Cred_Err")

\* C9 as stated: putenv is invoked only for names the service environment
\* already defines, and a successful open_session() on a service environment
\* without SHELL leaves it without SHELL while the process SHELL is set.
C9_NoNewServiceVariable ==
    [][ op' = "open_session" /\ nOps' = nOps + 1 =>
          /\ \A i \in 1..Len(calls') :
                 calls'[i].prim = "putenv" => pamEnv[calls'[i].arg] # Null
          /\ (ret' = Ok /\ pamEnv["SHELL"] = Null)
                 => (pamEnv'["SHELL"] = Null /\ procEnv'["SHELL"] = Shell) ]_vars

\* C10: two authenticate() calls in a row in which every primitive succeeds
\* both return success, with is_authenticated true after each.
C10_AuthenticateTwice ==
    [][ (/\ op = "authenticate" /\ BackendOk(calls)
         /\ op' = "authenticate" /\ BackendOk(calls') /\ nOps' = nOps + 1)
        => (/\ ret = Ok /\ is_authenticated
            /\ ret' = Ok /\ is_authenticated') ]_vars

C10_Witness ==
    /\ op = "authenticate" /\ prevOp = "authenticate"
    /\ prevRet = Ok /\ ret = Ok /\ is_authenticated
    /\ Len(calls) = 2 /\ BackendOk(calls)

\* A step that is one authenticate() or open_session() call.
IsCall == nOps' = nOps + 1

\* The three session steps, in order, all returning Success.
SessionStepsOk(cs) ==
    /\ Len(cs) >= 3
    /\ cs[1] = Call("setcred", "Establish_Cred", Success)
    /\ cs[2] = Call("open_session", "None", Success)
    /\ cs[3] = Call("setcred", "Reinitialize_Cred", Success)

\* C11 as stated: once authenticate() or open_session() has returned the
\* error of a failed primitive, no later call returns success or turns
\* is_authenticated or has_open_session true.
C11_FailedIsAbsorbing ==
    [][ (failed /\ IsCall) =>
          /\ ret' # Ok
          /\ ~(~is_authenticated /\ is_authenticated')
          /\ ~(~has_open_session /\ has_open_session') ]_vars

\* C11 amended: a failure is not absorbing.  After it, authenticate() still
\* invokes the authenticate primitive and, when that and acct_mgmt succeed,
\* returns success with is_authenticated true; is_authenticated turns true
\* only that way, and open_session() succeeds or sets has_open_session only
\* when called with is_authenticated true and all three session steps succeed.
C11_FailureIsRecoverable ==
    [][ (failed /\ IsCall) =>
          /\ op' = "authenticate" =>
                /\ Len(calls') >= 1 /\ calls'[1].prim = "authenticate"
                /\ BackendOk(calls') => (ret' = Ok /\ is_authenticated' /\ Len(calls') = 2)
                /\ ret' = Ok => BackendOk(calls')
          /\ (~is_authenticated /\ is_authenticated')
                => (op' = "authenticate" /\ ret' = Ok)
          /\ (op' = "open_session" /\ (ret' = Ok \/ (~has_open_session /\ has_open_session')))
                => (is_authenticated /\ SessionStepsOk(calls')) ]_vars

C11_Witness ==
    /\ failed /\ op = "authenticate" /\ ret = Ok /\ is_authenticated
    /\ prevOp = "authenticate" /\ prevRet.kind = "err"

\* C12: when the three session steps succeed and a putenv call then fails,
\* open_session() returns the error of that putenv call, which is its last
\* primitive call; has_open_session and is_authenticated are true afterwards
\* and the call makes no delete-credentials call.
C12_EnvFailureKeepsSession ==
    (/\ op = "open_session" /\ SessionStepsOk(calls)
     /\ \E i \in 1..Len(calls) : calls[i].prim = "putenv" /\ calls[i].rc # Success)
        => /\ calls[Len(calls)].prim = "putenv"
           /\ ret = Err(calls[Len(calls)].rc)
           /\ has_open_session /\ is_authenticated
           /\ CountCalls(calls, "setcred", "Delete_Cred") = 0

C12_Witness ==
    /\ op = "open_session" /\ SessionStepsOk(calls)
    /\ calls[Len(calls)] = Call("putenv", "HOME", "Cred_Err")
    /\ ret = Err("Cred_Err") /\ has_open_session

\* Number of session-step calls in a log.
CountSessionSteps(cs) == Cardinality({i \in 1..Len(cs) : IsSessionStep(cs[i])})

\* C13: has_open_session changes from false to true only in an open_session()
\* call whose first three primitive calls are establish-credentials,
\* open-session, reinitialize-credentials, each returning Success, and which
\* makes no other session-step call.
C13_SessionFlagOnlyAfterThreeSteps ==
    [][ (~has_open_session /\ has_open_session') =>
          /\ IsCall /\ op' = "open_session"
          /\ SessionStepsOk(calls')
          /\ CountSessionSteps(calls') = 3 ]_vars

C13_Witness ==
    /\ has_open_session /\ op = "open_session" /\ prevOp = "authenticate"
    /\ SessionStepsOk(calls) /\ CountSessionSteps(calls) = 3

\* C14: when authenticate() or open_session() ends in reset, the call before
\* reset's delete-credentials call is the step that failed, the error
\* returned carries that step's code whatever delete-credentials returned,
\* and is_authenticated is false.
C14_ResetReturnsTriggeringCode ==
    (op \in {"authenticate", "open_session"} /\ EndsInReset(calls))
        => /\ Len(calls) >= 2
           /\ IsStep(calls[Len(calls) - 1])
           /\ calls[Len(calls) - 1].rc # Success
           /\ ret = Err(calls[Len(calls) - 1].rc)
           /\ last_code = calls[Len(calls) - 1].rc
           /\ ~is_authenticated

C14_Witness ==
    /\ op = "open_session" /\ Len(calls) = 3
    /\ calls[2] = Call("open_session", "None", "Auth_Err")
    /\ calls[3] = Call("setcred", "Delete_Cred", "Cred_Err")
    /\ ret = Err("Auth_Err")

\* C15: the primitive calls of teardown are close-session (present exactly
\* when has_open_session and close_on_drop), then delete-credentials, then
\* end, and the status handed to end is the code that delete-credentials
\* call returned.
C15_TeardownOrderAndEndStatus ==
    op = "drop" =>
        LET n == Len(calls)
        IN /\ n = (IF has_open_session /\ close_on_drop THEN 3 ELSE 2)
           /\ n = 3 => calls[1].prim = "close_session"
           /\ calls[n - 1].prim = "setcred" /\ calls[n - 1].arg = "Delete_Cred"
           /\ calls[n].prim = "end"
           /\ calls[n].arg = calls[n - 1].rc

C15_Witness ==
    /\ op = "drop" /\ Len(calls) = 3
    /\ calls[1] = Call("close_session", "None", "Auth_Err")
    /\ calls[2] = Call("setcred", "Delete_Cred", "Cred_Err")
    /\ calls[3].prim = "end" /\ calls[3].arg = "Cred_Err"

\* C16: construction invokes only start; the Authenticator exists exactly
\* when start was invoked and returned Success, and otherwise construction
\* returns the start error and nothing is invoked afterwards.  Every other
\* primitive is invoked while the Authenticator exists and end has not been
\* invoked, end is the last call made on the handle, and nothing is invoked
\* after teardown.
C16_PrimitivesOnlyOnLiveHandle ==
    [][ /\ phase = "unborn" =>
              /\ op' = "with_handler"
              /\ \A i \in 1..Len(calls') : calls'[i].prim = "start"
              /\ phase' \in {"live", "start_failed"}
              /\ phase' = "live" <=>
                   (ret' = Ok /\ Len(calls') = 1 /\ calls'[1].rc = Success)
              /\ phase' = "start_failed" =>
                   /\ ret'.kind = "err"
                   /\ Len(calls') = 1 => ret' = Err(calls'[1].rc)
                   /\ nEnd' = 0 /\ nDelCred' = 0 /\ nClose' = 0
        /\ phase \notin {"start_failed", "dropped"}
        /\ phase \in {"live", "panicked"} =>
              /\ nEnd = 0
              /\ \A i \in 1..Len(calls') :
                    /\ calls' # calls => calls'[i].prim # "start"
                    /\ calls'[i].prim = "end" => (i = Len(calls') /\ phase' = "dropped") ]_vars

C16_Witness ==
    /\ phase = "start_failed" /\ op = "with_handler"
    /\ calls = <<Call("start", "login", "Auth_Err")>>
    /\ ret = Err("Auth_Err") /\ nEnd = 0

\* The getenv/putenv calls of a log, in order.
RECURSIVE EnvCalls(_)
EnvCalls(cs) ==
    IF cs = <<>> THEN <<>>
    ELSE IF cs[1].prim \in {"getenv", "putenv"}
         THEN <<cs[1]>> \o EnvCalls(Tail(cs))
         ELSE EnvCalls(Tail(cs))

\* Position of a variable name in EnvKeys.
KeyIdx(key) == CHOOSE i \in 1..Len(EnvKeys) : EnvKeys[i] = key

\* C17: open_session() touches the variables in the order USER, LOGNAME,
\* HOME, PWD, SHELL (for each: the process value, then getenv, then at most
\* one putenv); a failing putenv is the last call and its error is
\* returned, and the process and service values of every variable later in
\* the order are what they were before the call.
C17_EnvironmentOrderAndAbort ==
    [][ (IsCall /\ op' = "open_session") =>
          LET ec == EnvCalls(calls')
              n == Cardinality({ec[i].arg : i \in 1..Len(ec)})
          IN /\ \A i, j \in 1..Len(ec) :
                   i < j => \/ KeyIdx(ec[i].arg) < KeyIdx(ec[j].arg)
                            \/ /\ ec[i].arg = ec[j].arg /\ j = i + 1
                               /\ ec[i].prim = "getenv" /\ ec[j].prim = "putenv"
             /\ \A k \in 1..n :
                   /\ \E i \in 1..Len(ec) : ec[i] = Call("getenv", EnvKeys[k], Success)
                   /\ procEnv'[EnvKeys[k]] = EnvValues[k]
             /\ \A i \in 1..Len(ec) :
                   (ec[i].prim = "putenv" /\ ec[i].rc # Success) =>
                       /\ i = Len(ec) /\ calls'[Len(calls')] = ec[i]
                       /\ ret' = Err(ec[i].rc)
                       /\ n = KeyIdx(ec[i].arg)
                       /\ pamEnv'[ec[i].arg] = pamEnv[ec[i].arg]
             /\ \A j \in (n + 1)..Len(EnvKeys) :
                   /\ procEnv'[EnvKeys[j]] = procEnv[EnvKeys[j]]
                   /\ pamEnv'[EnvKeys[j]] = pamEnv[EnvKeys[j]]
             /\ ret' = Ok => n = Len(EnvKeys) ]_vars

C17_Witness ==
    /\ op = "open_session" /\ ret = Err("Auth_Err")
    /\ calls[Len(calls)] = Call("putenv", "HOME", "Auth_Err")
    /\ procEnv["USER"] = UserName /\ procEnv["HOME"] = HomeDir
    /\ procEnv["PWD"] = Inherited /\ procEnv["SHELL"] = Inherited
    /\ pamEnv["LOGNAME"] = UserName /\ pamEnv["HOME"] \in {Null, OldVal}

\* C18: an open_session() call that panics because the user cannot be
\* resolved has made exactly the three successful session steps, has set
\* has_open_session and has changed no environment variable; the only step
\* that can follow is the teardown of the unwinding, which invokes
\* close-session exactly when close_on_drop is true, then delete-credentials,
\* then end, and is the only invocation of end.
C18_PanicStillTearsDownOnce ==
    [][ /\ (phase # "panicked" /\ phase' = "panicked") =>
              /\ op' = "open_session" /\ ret' = Panicked
              /\ SessionStepsOk(calls') /\ Len(calls') = 3
              /\ has_open_session'
              /\ pamEnv' = pamEnv /\ procEnv' = procEnv
              /\ nEnd' = 0
        /\ phase = "panicked" =>
              /\ phase' = "dropped" /\ op' = "drop"
              /\ pamEnv' = pamEnv /\ procEnv' = procEnv
              /\ nEnd' = 1
              /\ Len(calls') = (IF close_on_drop THEN 3 ELSE 2)
              /\ close_on_drop => calls'[1].prim = "close_session"
              /\ calls'[Len(calls') - 1].prim = "setcred"
              /\ calls'[Len(calls') - 1].arg = "Delete_Cred"
              /\ calls'[Len(calls')].prim = "end" ]_vars

C18_Witness ==
    /\ phase = "dropped" /\ prevOp = "open_session" /\ prevRet = Panicked
    /\ close_on_drop /\ nClose = 1 /\ nEnd = 1
    /\ procEnv = [k \in KeySet |-> Inherited]

\* C19: after an open_session() call has failed on one of its three session
\* steps, and until an authenticate() call has returned success,
\* is_authenticated is false and every open_session() call returns the
\* permission-denied error without invoking a primitive.
C19_SessionFailureDeniesUntilReauth ==
    [][ /\ sessionFailed' => ~is_authenticated'
        /\ (sessionFailed /\ IsCall /\ op' = "open_session")
              => (ret' = Err("Perm_Denied") /\ calls' = <<>> /\ sessionFailed') ]_vars

C19_Witness ==
    /\ sessionFailed /\ op = "open_session" /\ ret = Err("Perm_Denied") /\ calls = <<>>
    /\ prevOp = "open_session" /\ prevRet = Err("Cred_Err") /\ everAuthOk

\* C20: once has_open_session is true no step sets it back to false, and a
\* teardown that starts with has_open_session and close_on_drop true invokes
\* close-session first, also after a reset has cleared is_authenticated.
C20_SessionFlagMonotone ==
    [][ /\ has_open_session => has_open_session'
        /\ (has_open_session /\ close_on_drop /\ phase # "dropped" /\ phase' = "dropped")
              => (calls'[1].prim = "close_session" /\ nClose' = 1) ]_vars

C20_Witness ==
    /\ phase = "dropped" /\ has_open_session /\ ~is_authenticated
    /\ prevOp = "authenticate" /\ prevRet.kind = "err" /\ nStepFail = 1
    /\ close_on_drop /\ nClose = 1

=============================================================================
